---- MODULE Spec2Model ----
(***************************************************************************)
(* Concurrency model of the voice agent: the coordinator                   *)
(* (VoiceAgentController, running on the Qt event loop), the capture loop  *)
(* (VoiceInputHandler._continuous_listen), the speech drain worker         *)
(* (TextToSpeech._speech_worker) and the backend calls (APIWorker).        *)
(*                                                                         *)
(* A text is a pair <<pad, core>>: pad says whether the string carries     *)
(* leading/trailing whitespace, core is the identity of its non-blank      *)
(* content (0 when there is none).  "" is <<FALSE, 0>>, "  " is            *)
(* <<TRUE, 0>>.                                                            *)
(***************************************************************************)
EXTENDS Integers, Sequences, FiniteSets, TLC

\* ---- bounds ----
\* the whole program (Spec)
MaxTyped == 1      \* messages typed into the chat panel
MaxHeard == 1      \* utterances the microphone hears
MaxThreads == 2    \* capture threads ever started
MaxUI == 1         \* button clicks (start, stop, stop-all, toggle, disconnect)
\* the speech queue on its own (SpecTTS)
SpeakCalls == 3    \* replies handed to speak()
TTSClicks == 2     \* clicks on the TTS toggle and on stop-all
\* capture loop, coordinator and speech queue (SpecBarge)
BargeCalls == 3    \* replies handed to speak()
MaxWorkers == 2    \* slots for speech drain threads
\* capture loop and the buttons that start and stop it (SpecVoice)
VoiceClicks == 2   \* clicks on start, stop and disconnect
VoiceHeard == 2    \* utterances the microphone hears
\* an utterance, its dispatch and its spoken reply (SpecExchange)
ExClicks == 1      \* clicks on start
ExHeard == 1       \* utterances the microphone hears
\* typed messages and the outcomes of their dispatch (SpecDispatch)
DispTyped == 2     \* messages typed into the chat panel
\* the voice handler called directly (SpecHandler)
HandlerCalls == 3  \* calls of start_recording() and stop_recording()
HandlerHeard == 1  \* utterances the microphone hears
\* the handlers that stop things, with work outstanding (SpecStop)
StopClicks == 1    \* clicks on start and disconnect
StopTyped == 1     \* typed messages and replies handed to speak()
\* replies whose rendering can fail, during a capture session (SpecSynth)
SynthCalls == 2    \* replies handed to speak()
SynthClicks == 1   \* clicks on start
\* the text chat of ChatController (SpecChat)
ChatTyped == 2     \* clicks on Send
\* what is said and typed, up to the dispatch (SpecIntake)
IntakeClicks == 1  \* clicks on start
IntakeTyped == 1   \* typed messages
IntakeHeard == 2   \* utterances

Max(S) == CHOOSE x \in S : \A y \in S : x >= y
Min(S) == CHOOSE x \in S : \A y \in S : x <= y

\* every message that reaches the coordinator has its own id
MaxReq == Max({MaxTyped + MaxHeard, SpeakCalls, BargeCalls + MaxHeard, VoiceHeard,
              ExHeard, DispTyped, HandlerHeard, StopTyped, SynthCalls,
              ChatTyped, IntakeTyped + IntakeHeard})
Reqs == 1..MaxReq
Threads == 1..MaxThreads
Workers == 1..MaxWorkers

VARIABLES
    \* TextToSpeech
    enabled, engine, speaking, speech_queue, worker_thread, wpc, wtext,
    \* VoiceInputHandler
    available, is_active, is_recording, listen_thread, lpc, mic,
    \* VoiceAgentController and its APIWorkers
    current_worker, apc, events, todo,
    \* VoiceAgentWindow
    chat, room_connected, agent_connected,
    \* environment budgets
    nreq, nthreads, uiLeft, typeLeft, hearLeft,
    \* observation (history) variables
    accepted, rendered, stopped, stopMark, barge, halted, disconnected,
    lsSpeaking, stopSince, over, scenarioE,
    \* per capture thread: listen calls begun, listening_started signals
    \* emitted, outcome of the cycle last completed
    cycles, announced, outcome,
    \* APIClient._make_request: what session.request did, what was returned
    call, ret,
    \* the calls made and the faults met so far, in order; MainWindow's input
    \* widgets
    op, input_enabled

ttsVars == <<enabled, engine, speaking, speech_queue, worker_thread, wpc, wtext>>
voiceVars == <<available, is_active, is_recording, listen_thread, lpc, mic>>
apiVars == <<current_worker, apc>>
winVars == <<chat, room_connected, agent_connected>>
envVars == <<nreq, nthreads, uiLeft, typeLeft, hearLeft>>
obsVars == <<accepted, rendered, stopped, stopMark, barge, halted, disconnected,
            lsSpeaking, stopSince, over, scenarioE>>
auxVars == <<cycles, announced, outcome, call, ret, op, input_enabled>>
vars == <<ttsVars, voiceVars, apiVars, events, todo, winVars, envVars, obsVars,
          auxVars>>

\* ---- texts ----
EmptyText == <<FALSE, 0>>
strip(t) == <<FALSE, t[2]>>
truthy(t) == t # EmptyText
\* `not text or not text.strip()`
blank(t) == ~truthy(t) \/ ~truthy(strip(t))

\* APIStatus
APIStatus == {"success", "error", "timeout", "connection_error",
              "invalid_response", "authentication_error"}

\* ---- state after VoiceAgentController.__init__ ----
\* eng: pyttsx3.init() succeeded; avail: recognizer and microphone present;
\* conn: the health probe of _check_connection succeeded; then what the
\* user will do: clicks, typed messages, utterances
Config(eng, avail, conn, clicks, typed, heard) ==
    /\ enabled = TRUE
    /\ engine = eng
    /\ speaking = FALSE
    /\ speech_queue = <<>>
    /\ worker_thread = 0
    /\ wpc = [w \in Workers |-> "off"]
    /\ wtext = [w \in Workers |-> EmptyText]
    /\ available = avail
    /\ is_active = FALSE
    /\ is_recording = FALSE
    /\ listen_thread = 0
    /\ lpc = [t \in Threads |-> "off"]
    /\ mic = 0
    /\ current_worker = 0
    /\ apc = [k \in Reqs |-> "off"]
    /\ events = <<>>
    /\ todo = <<>>
    /\ room_connected = conn
    /\ agent_connected = conn
    /\ chat = (IF avail THEN <<>> ELSE <<<<"error", "unavailable">>>>)
              \o <<<<"agent", "greeting">>>>
    /\ nreq = 0 /\ nthreads = 0
    /\ uiLeft = clicks /\ typeLeft = typed /\ hearLeft = heard
    /\ accepted = <<>> /\ rendered = <<>>
    /\ stopped = FALSE /\ stopMark = 0 /\ barge = FALSE /\ halted = FALSE
    /\ disconnected = FALSE
    /\ lsSpeaking = [t \in Threads |-> FALSE]
    /\ stopSince = [t \in Threads |-> FALSE]
    /\ over = [t \in Threads |-> 0]
    /\ scenarioE = "none"
    /\ cycles = [t \in Threads |-> 0]
    /\ announced = [t \in Threads |-> 0]
    /\ outcome = [t \in Threads |-> "none"]
    /\ call = <<>>
    /\ ret = <<>>
    /\ op = <<>>
    /\ input_enabled = TRUE

Init ==
    \E eng \in BOOLEAN, avail \in BOOLEAN, conn \in BOOLEAN :
        Config(eng, avail, conn, MaxUI, MaxTyped, MaxHeard)

\* the speech queue is idle: nothing queued and is_speaking() false
Quiet(q, s) == q = <<>> /\ s = FALSE

\* ---- TextToSpeech ----
\* speak() without the `is_alive()` guard: a drain thread per call
speak_unguarded(text) ==
    IF ~enabled \/ ~engine \/ ~truthy(text) \/ ~truthy(strip(text))
    THEN UNCHANGED <<speech_queue, worker_thread, wpc, accepted, halted, scenarioE>>
    ELSE /\ speech_queue' = Append(speech_queue, strip(text))
         /\ accepted' = Append(accepted, strip(text)[2])
         /\ halted' = FALSE
         /\ UNCHANGED scenarioE
         /\ \E w \in Workers : wpc[w] = "off"
         /\ LET w == Min({x \in Workers : wpc[x] = "off"})
            IN /\ worker_thread' = w
               /\ wpc' = [wpc EXCEPT ![w] = "loop"]

\* speak() without the `not self.enabled` test
speak_ignores_enabled(text) ==
    IF ~engine \/ ~truthy(text) \/ ~truthy(strip(text))
    THEN UNCHANGED <<speech_queue, worker_thread, wpc, accepted, halted, scenarioE>>
    ELSE /\ speech_queue' = Append(speech_queue, strip(text))
         /\ accepted' = Append(accepted, strip(text)[2])
         /\ halted' = FALSE
         /\ scenarioE' = IF scenarioE = "off_busy" /\ ~enabled
                         THEN "refused" ELSE scenarioE
         /\ IF worker_thread = 0 \/ wpc[worker_thread] = "off"
            THEN /\ \E w \in Workers : wpc[w] = "off"
                 /\ LET w == Min({x \in Workers : wpc[x] = "off"})
                    IN /\ worker_thread' = w
                       /\ wpc' = [wpc EXCEPT ![w] = "loop"]
            ELSE UNCHANGED <<worker_thread, wpc>>

\* speak(): runs on the caller's (coordinator's) thread
speak(text) ==
    IF ~enabled \/ ~engine \/ ~truthy(text) \/ ~truthy(strip(text))
    THEN /\ UNCHANGED <<speech_queue, worker_thread, wpc, accepted, halted>>
         /\ scenarioE' = IF scenarioE = "off_busy" /\ ~enabled /\ ~blank(text)
                         THEN "refused" ELSE scenarioE
    ELSE /\ speech_queue' = Append(speech_queue, strip(text))
         /\ accepted' = Append(accepted, strip(text)[2])
         /\ halted' = FALSE
         /\ UNCHANGED scenarioE
         /\ IF worker_thread = 0 \/ wpc[worker_thread] = "off"
            THEN /\ \E w \in Workers : wpc[w] = "off"
                 /\ LET w == Min({x \in Workers : wpc[x] = "off"})
                    IN /\ worker_thread' = w
                       /\ wpc' = [wpc EXCEPT ![w] = "loop"]
            ELSE UNCHANGED <<worker_thread, wpc>>

\* the loop raising the speaking flag as soon as it has taken a text
speech_worker_loop_flags(w) ==
    /\ wpc[w] = "loop"
    /\ IF speech_queue = <<>>
       THEN /\ wpc' = [wpc EXCEPT ![w] = "exiting"]
            /\ UNCHANGED <<speech_queue, wtext, barge, speaking>>
       ELSE /\ wtext' = [wtext EXCEPT ![w] = Head(speech_queue)]
            /\ speech_queue' = Tail(speech_queue)
            /\ wpc' = [wpc EXCEPT ![w] = "sync"]
            /\ speaking' = TRUE
            /\ barge' = (barge /\ ~Quiet(speech_queue', speaking'))
    /\ UNCHANGED <<enabled, engine, worker_thread>>
    /\ UNCHANGED <<voiceVars, apiVars, events, todo, winVars, envVars>>
    /\ UNCHANGED <<accepted, rendered, stopped, stopMark, halted, disconnected,
                   lsSpeaking, stopSince, over, scenarioE>>
    /\ UNCHANGED auxVars

\* _speech_worker: `while not empty(): text = get(timeout=0.1)`
speech_worker_loop(w) ==
    /\ wpc[w] = "loop"
    /\ IF speech_queue = <<>>
       THEN /\ wpc' = [wpc EXCEPT ![w] = "exiting"]
            /\ UNCHANGED <<speech_queue, wtext, barge>>
       ELSE /\ wtext' = [wtext EXCEPT ![w] = Head(speech_queue)]
            /\ speech_queue' = Tail(speech_queue)
            /\ wpc' = [wpc EXCEPT ![w] = "sync"]
            /\ barge' = (barge /\ ~Quiet(speech_queue', speaking))
    /\ UNCHANGED <<enabled, engine, speaking, worker_thread>>
    /\ UNCHANGED <<voiceVars, apiVars, events, todo, winVars, envVars>>
    /\ UNCHANGED <<accepted, rendered, stopped, stopMark, halted, disconnected,
                   lsSpeaking, stopSince, over, scenarioE>>
    /\ UNCHANGED auxVars

\* the drain thread has left its loop and terminates (is_alive() turns false)
speech_worker_exit(w) ==
    /\ wpc[w] = "exiting"
    /\ wpc' = [wpc EXCEPT ![w] = "off"]
    /\ UNCHANGED <<enabled, engine, speaking, speech_queue, worker_thread, wtext>>
    /\ UNCHANGED <<voiceVars, apiVars, events, todo, winVars, envVars, obsVars>>
    /\ UNCHANGED auxVars

\* _speak_sync: `self.speaking = True`
speak_sync_begin(w) ==
    /\ wpc[w] = "sync"
    /\ speaking' = TRUE
    /\ wpc' = [wpc EXCEPT ![w] = "say"]
    /\ UNCHANGED <<enabled, engine, speech_queue, worker_thread, wtext>>
    /\ UNCHANGED <<voiceVars, apiVars, events, todo, winVars, envVars, obsVars>>
    /\ UNCHANGED auxVars

\* _speak_sync: `engine.say(text); engine.runAndWait()` starts rendering
speak_sync_say(w) ==
    /\ wpc[w] = "say"
    /\ wpc' = [wpc EXCEPT ![w] = "run"]
    /\ rendered' = Append(rendered, wtext[w][2])
    /\ UNCHANGED <<enabled, engine, speaking, speech_queue, worker_thread, wtext>>
    /\ UNCHANGED <<voiceVars, apiVars, events, todo, winVars, envVars>>
    /\ UNCHANGED <<accepted, stopped, stopMark, barge, halted, disconnected,
                   lsSpeaking, stopSince, over, scenarioE>>
    /\ UNCHANGED auxVars

\* runAndWait() returns (the utterance is over) or raises
speak_sync_return(w) ==
    /\ wpc[w] = "run"
    /\ wpc' = [wpc EXCEPT ![w] = "fin"]
    /\ UNCHANGED <<enabled, engine, speaking, speech_queue, worker_thread, wtext>>
    /\ UNCHANGED <<voiceVars, apiVars, events, todo, winVars, envVars, obsVars>>
    /\ UNCHANGED auxVars

\* engine.say() or engine.runAndWait() raises
speak_sync_raise(w) ==
    /\ wpc[w] \in {"say", "run"}
    /\ wpc' = [wpc EXCEPT ![w] = "except"]
    /\ op' = Append(op, "synthesis_error")
    /\ UNCHANGED <<enabled, engine, speaking, speech_queue, worker_thread, wtext>>
    /\ UNCHANGED <<voiceVars, apiVars, events, todo, winVars, envVars, obsVars>>
    /\ UNCHANGED <<cycles, announced, outcome, call, ret, input_enabled>>

\* the except clause letting the exception end the worker's loop
speak_sync_except_breaks(w) ==
    /\ wpc[w] = "except"
    /\ speaking' = FALSE
    /\ wpc' = [wpc EXCEPT ![w] = "exiting"]
    /\ barge' = (barge /\ ~Quiet(speech_queue, speaking'))
    /\ UNCHANGED <<enabled, engine, speech_queue, worker_thread, wtext>>
    /\ UNCHANGED <<voiceVars, apiVars, events, todo, winVars, envVars>>
    /\ UNCHANGED <<accepted, rendered, stopped, stopMark, halted, disconnected,
                   lsSpeaking, stopSince, over, scenarioE>>
    /\ UNCHANGED auxVars

\* _speak_sync: `except Exception: print(...); self.speaking = False`, and
\* back in the loop of _speech_worker
speak_sync_except(w) ==
    /\ wpc[w] = "except"
    /\ speaking' = FALSE
    /\ wpc' = [wpc EXCEPT ![w] = "loop"]
    /\ barge' = (barge /\ ~Quiet(speech_queue, speaking'))
    /\ UNCHANGED <<enabled, engine, speech_queue, worker_thread, wtext>>
    /\ UNCHANGED <<voiceVars, apiVars, events, todo, winVars, envVars>>
    /\ UNCHANGED <<accepted, rendered, stopped, stopMark, halted, disconnected,
                   lsSpeaking, stopSince, over, scenarioE>>
    /\ UNCHANGED auxVars

\* _speak_sync leaving without resetting the flag
speak_sync_end_noreset(w) ==
    /\ wpc[w] = "fin"
    /\ wpc' = [wpc EXCEPT ![w] = "loop"]
    /\ UNCHANGED <<enabled, engine, speaking, speech_queue, worker_thread, wtext>>
    /\ UNCHANGED <<voiceVars, apiVars, events, todo, winVars, envVars, obsVars>>
    /\ UNCHANGED auxVars

\* _speak_sync: `self.speaking = False` (both the normal and the except path)
speak_sync_end(w) ==
    /\ wpc[w] = "fin"
    /\ speaking' = FALSE
    /\ wpc' = [wpc EXCEPT ![w] = "loop"]
    /\ barge' = (barge /\ ~Quiet(speech_queue, speaking'))
    /\ UNCHANGED <<enabled, engine, speech_queue, worker_thread, wtext>>
    /\ UNCHANGED <<voiceVars, apiVars, events, todo, winVars, envVars>>
    /\ UNCHANGED <<accepted, rendered, stopped, stopMark, halted, disconnected,
                   lsSpeaking, stopSince, over, scenarioE>>
    /\ UNCHANGED auxVars

\* stop(): the statements the coordinator still has to execute; the drain
\* worker runs between them.  engine.stop() is taken to return normally
stop ==
    IF engine THEN <<"engine_stop", "speaking_false", "clear_queue">> ELSE <<>>

\* stop(): `self.engine.stop()` cancels the utterance being rendered
stop_engine ==
    /\ todo # <<>> /\ Head(todo) = "engine_stop"
    /\ todo' = Tail(todo)
    /\ wpc' = [w \in Workers |-> IF wpc[w] = "run" THEN "fin" ELSE wpc[w]]
    /\ stopped' = TRUE
    /\ stopSince' = [t \in Threads |-> TRUE]
    /\ halted' = (halted \/ \E w \in Workers : wpc[w] = "run")
    /\ UNCHANGED <<enabled, engine, speaking, speech_queue, worker_thread, wtext>>
    /\ UNCHANGED <<voiceVars, apiVars, events, winVars, envVars>>
    /\ UNCHANGED <<accepted, rendered, stopMark, barge, disconnected, lsSpeaking, over,
                   scenarioE>>
    /\ UNCHANGED auxVars

\* stop(): `self.speaking = False`
stop_speaking ==
    /\ todo # <<>> /\ Head(todo) = "speaking_false"
    /\ todo' = Tail(todo)
    /\ speaking' = FALSE
    /\ barge' = (barge /\ ~Quiet(speech_queue, speaking'))
    /\ UNCHANGED <<enabled, engine, speech_queue, worker_thread, wpc, wtext>>
    /\ UNCHANGED <<voiceVars, apiVars, events, winVars, envVars>>
    /\ UNCHANGED <<accepted, rendered, stopped, stopMark, halted, disconnected,
                   lsSpeaking, stopSince, over, scenarioE>>
    /\ UNCHANGED auxVars

\* stop(): `while not empty(): get_nowait()`, after which stop() returns
stop_clear ==
    /\ todo # <<>> /\ Head(todo) = "clear_queue"
    /\ todo' = Tail(todo)
    /\ speech_queue' = <<>>
    /\ stopMark' = Len(accepted)
    /\ barge' = (barge /\ ~Quiet(speech_queue', speaking))
    /\ UNCHANGED <<enabled, engine, speaking, worker_thread, wpc, wtext>>
    /\ UNCHANGED <<voiceVars, apiVars, events, winVars, envVars>>
    /\ UNCHANGED <<accepted, rendered, stopped, halted, disconnected,
                   lsSpeaking, stopSince, over, scenarioE>>
    /\ UNCHANGED auxVars

\* ---- VoiceInputHandler ----
\* start_recording() without the `if self.is_active` test
start_recording_unguarded ==
    IF ~available
    THEN /\ events' = Append(events, <<"error_occurred", -1>>)
         /\ UNCHANGED <<is_active, is_recording, listen_thread, lpc, nthreads>>
    ELSE /\ nthreads < MaxThreads
         /\ is_active' = TRUE
         /\ is_recording' = TRUE
         /\ nthreads' = nthreads + 1
         /\ listen_thread' = nthreads + 1
         /\ lpc' = [lpc EXCEPT ![nthreads + 1] = "enter"]
         /\ UNCHANGED events

\* start_recording(), on the caller's (coordinator's) thread; the error it
\* emits itself carries -1 where a capture thread puts its id
start_recording ==
    IF ~available
    THEN /\ events' = Append(events, <<"error_occurred", -1>>)
         /\ UNCHANGED <<is_active, is_recording, listen_thread, lpc, nthreads>>
    ELSE IF is_active
    THEN UNCHANGED <<events, is_active, is_recording, listen_thread, lpc, nthreads>>
    ELSE /\ nthreads < MaxThreads
         /\ is_active' = TRUE
         /\ is_recording' = TRUE
         /\ nthreads' = nthreads + 1
         /\ listen_thread' = nthreads + 1
         /\ lpc' = [lpc EXCEPT ![nthreads + 1] = "enter"]
         /\ UNCHANGED events

\* stop_recording() written as a toggle of the session flag
stop_recording_toggle ==
    /\ is_active' = ~is_active
    /\ is_recording' = ~is_active

\* stop_recording(), on the coordinator's thread (stop_listening is always None)
stop_recording ==
    IF ~is_active
    THEN UNCHANGED <<is_active, is_recording>>
    ELSE /\ is_active' = FALSE
         /\ is_recording' = FALSE

\* what the microphone can make of an utterance
Recognized(k) == {<<FALSE, k>>, <<TRUE, 0>>, EmptyText}

\* the id of the utterance the speaker is rendering, 0 when silent
Playing == IF \E w \in Workers : wpc[w] = "run"
           THEN wtext[CHOOSE w \in Workers : wpc[w] = "run"][2] ELSE 0

\* _continuous_listen: `with self.microphone as source`; a source that is
\* already inside a context, or a device that cannot be opened, raises and
\* the outer handler emits error_occurred
listen_enter(t) ==
    /\ lpc[t] = "enter"
    /\ \E ok \in BOOLEAN :
         IF ok /\ mic = 0
         THEN /\ mic' = t
              /\ lpc' = [lpc EXCEPT ![t] = "loop"]
              /\ UNCHANGED events
         ELSE /\ events' = Append(events, <<"error_occurred", t>>)
              /\ lpc' = [lpc EXCEPT ![t] = "finally"]
              /\ UNCHANGED mic
    /\ UNCHANGED <<available, is_active, is_recording, listen_thread>>
    /\ UNCHANGED <<ttsVars, apiVars, todo, winVars, envVars, obsVars>>
    /\ UNCHANGED auxVars

\* the loop with listening_started emitted ahead of the first cycle only
listen_loop_first_only(t) ==
    /\ lpc[t] = "loop"
    /\ IF is_active
       THEN /\ IF cycles[t] = 0
               THEN /\ events' = Append(events, <<"listening_started", t>>)
                    /\ announced' = [announced EXCEPT ![t] = @ + 1]
               ELSE UNCHANGED <<events, announced>>
            /\ lpc' = [lpc EXCEPT ![t] = "listen"]
            /\ lsSpeaking' = [lsSpeaking EXCEPT ![t] = speaking]
            /\ stopSince' = [stopSince EXCEPT ![t] = FALSE]
            /\ cycles' = [cycles EXCEPT ![t] = @ + 1]
            /\ UNCHANGED mic
       ELSE /\ lpc' = [lpc EXCEPT ![t] = "finally"]
            /\ mic' = 0
            /\ UNCHANGED <<events, lsSpeaking, stopSince, announced, cycles>>
    /\ UNCHANGED <<available, is_active, is_recording, listen_thread>>
    /\ UNCHANGED <<ttsVars, apiVars, todo, winVars, envVars>>
    /\ UNCHANGED <<accepted, rendered, stopped, stopMark, barge, halted,
                   disconnected, over, scenarioE>>
    /\ UNCHANGED <<outcome, call, ret, op, input_enabled>>

\* `while self.is_active:` and `self.listening_started.emit()`
listen_loop(t) ==
    /\ lpc[t] = "loop"
    /\ IF is_active
       THEN /\ events' = Append(events, <<"listening_started", t>>)
            /\ lpc' = [lpc EXCEPT ![t] = "listen"]
            /\ lsSpeaking' = [lsSpeaking EXCEPT ![t] = speaking]
            /\ stopSince' = [stopSince EXCEPT ![t] = FALSE]
            /\ announced' = [announced EXCEPT ![t] = @ + 1]
            /\ cycles' = [cycles EXCEPT ![t] = @ + 1]
            /\ UNCHANGED mic
       ELSE /\ lpc' = [lpc EXCEPT ![t] = "finally"]
            /\ mic' = 0
            /\ UNCHANGED <<events, lsSpeaking, stopSince, announced, cycles>>
    /\ UNCHANGED <<available, is_active, is_recording, listen_thread>>
    /\ UNCHANGED <<ttsVars, apiVars, todo, winVars, envVars>>
    /\ UNCHANGED <<accepted, rendered, stopped, stopMark, barge, halted,
                   disconnected, over, scenarioE>>
    /\ UNCHANGED <<outcome, call, ret, op, input_enabled>>

\* recognizer.listen() returns with a phrase; `if not self.is_active: break`
listen_return(t) ==
    /\ lpc[t] = "listen"
    /\ hearLeft > 0
    /\ hearLeft' = hearLeft - 1
    /\ IF ~is_active
       THEN /\ lpc' = [lpc EXCEPT ![t] = "finally"]
            /\ mic' = 0
            /\ UNCHANGED over
       ELSE /\ lpc' = [lpc EXCEPT ![t] = "recognize"]
            /\ over' = [over EXCEPT ![t] = Playing]
            /\ UNCHANGED mic
    /\ UNCHANGED <<available, is_active, is_recording, listen_thread>>
    /\ UNCHANGED <<ttsVars, apiVars, events, todo, winVars, nreq, nthreads, uiLeft, typeLeft>>
    /\ UNCHANGED <<accepted, rendered, stopped, stopMark, barge, halted,
                   disconnected, lsSpeaking, stopSince, scenarioE>>
    /\ outcome' = [outcome EXCEPT ![t] = "none"]
    /\ UNCHANGED <<cycles, announced, call, ret, op, input_enabled>>

\* the cycle with whatever recognize_google() returned emitted
listen_recognized_emits_all(t) ==
    /\ lpc[t] = "recognize"
    /\ nreq < MaxReq
    /\ \E text \in Recognized(nreq + 1) :
         /\ events' = Append(events, <<"transcription_ready", t, text, over[t]>>)
         /\ nreq' = nreq + 1
         /\ outcome' = [outcome EXCEPT ![t] = "text"]
    /\ lpc' = [lpc EXCEPT ![t] = "loop"]
    /\ UNCHANGED <<available, is_active, is_recording, listen_thread, mic>>
    /\ UNCHANGED <<ttsVars, apiVars, todo, winVars, nthreads, uiLeft, typeLeft, hearLeft, obsVars>>
    /\ UNCHANGED <<cycles, announced, call, ret, op, input_enabled>>

\* recognize_google(audio) returns a text, which is emitted unless blank
listen_recognized(t) ==
    /\ lpc[t] = "recognize"
    /\ nreq < MaxReq
    /\ \E text \in Recognized(nreq + 1) :
         IF truthy(text) /\ truthy(strip(text))
         THEN /\ events' = Append(events, <<"transcription_ready", t, text, over[t]>>)
              /\ nreq' = nreq + 1
              /\ outcome' = [outcome EXCEPT ![t] = "text"]
         ELSE /\ UNCHANGED <<events, nreq>>
              /\ outcome' = [outcome EXCEPT ![t] = "empty"]
    /\ lpc' = [lpc EXCEPT ![t] = "loop"]
    /\ UNCHANGED <<available, is_active, is_recording, listen_thread, mic>>
    /\ UNCHANGED <<ttsVars, apiVars, todo, winVars, nthreads, uiLeft, typeLeft, hearLeft, obsVars>>
    /\ UNCHANGED <<cycles, announced, call, ret, op, input_enabled>>

\* the handlers with UnknownValueError reported like RequestError
listen_failed_reports_all(t) ==
    /\ lpc[t] = "recognize"
    /\ \E exc \in {"UnknownValueError", "RequestError", "Exception"} :
         /\ events' = IF exc \in {"RequestError", "UnknownValueError"}
                      THEN Append(events, <<"error_occurred", t>>) ELSE events
         /\ outcome' = [outcome EXCEPT ![t] = exc]
    /\ lpc' = [lpc EXCEPT ![t] = "loop"]
    /\ UNCHANGED <<available, is_active, is_recording, listen_thread, mic>>
    /\ UNCHANGED <<ttsVars, apiVars, todo, winVars, envVars, obsVars>>
    /\ UNCHANGED <<cycles, announced, call, ret, op, input_enabled>>

\* the handlers with RequestError leaving the loop instead of `continue`
listen_failed_breaks(t) ==
    /\ lpc[t] = "recognize"
    /\ \E exc \in {"UnknownValueError", "RequestError", "Exception"} :
         /\ events' = IF exc = "RequestError"
                      THEN Append(events, <<"error_occurred", t>>) ELSE events
         /\ outcome' = [outcome EXCEPT ![t] = exc]
         /\ lpc' = [lpc EXCEPT ![t] = IF exc = "RequestError" THEN "finally" ELSE "loop"]
         /\ mic' = IF exc = "RequestError" THEN 0 ELSE mic
    /\ UNCHANGED <<available, is_active, is_recording, listen_thread>>
    /\ UNCHANGED <<ttsVars, apiVars, todo, winVars, envVars, obsVars>>
    /\ UNCHANGED <<cycles, announced, call, ret, op, input_enabled>>

\* recognize_google raises: UnknownValueError and other exceptions just
\* continue, RequestError emits error_occurred first
listen_failed(t) ==
    /\ lpc[t] = "recognize"
    /\ \E exc \in {"UnknownValueError", "RequestError", "Exception"} :
         /\ events' = IF exc = "RequestError"
                      THEN Append(events, <<"error_occurred", t>>) ELSE events
         /\ outcome' = [outcome EXCEPT ![t] = exc]
    /\ lpc' = [lpc EXCEPT ![t] = "loop"]
    /\ UNCHANGED <<available, is_active, is_recording, listen_thread, mic>>
    /\ UNCHANGED <<ttsVars, apiVars, todo, winVars, envVars, obsVars>>
    /\ UNCHANGED <<cycles, announced, call, ret, op, input_enabled>>

\* the thread ending without the finally clause
listen_finally_keeps_flags(t) ==
    /\ lpc[t] = "finally"
    /\ lpc' = [lpc EXCEPT ![t] = "done"]
    /\ UNCHANGED <<available, is_active, is_recording, listen_thread, mic>>
    /\ UNCHANGED <<ttsVars, apiVars, events, todo, winVars, envVars, obsVars>>
    /\ UNCHANGED auxVars

\* `finally: self.is_active = False; self.is_recording = False`
listen_finally(t) ==
    /\ lpc[t] = "finally"
    /\ is_active' = FALSE
    /\ is_recording' = FALSE
    /\ lpc' = [lpc EXCEPT ![t] = "done"]
    /\ UNCHANGED <<available, listen_thread, mic>>
    /\ UNCHANGED <<ttsVars, apiVars, events, todo, winVars, envVars, obsVars>>
    /\ UNCHANGED auxVars

\* ---- APIWorker ----
\* what the backend can answer to request k
Replies(k) == {<<FALSE, k>>, <<TRUE, 0>>}

\* run(): send_chat_message returns SUCCESS, response_received is emitted
APIWorker_run(k) ==
    /\ apc[k] = "running"
    /\ \E text \in Replies(k) :
         events' = Append(events, <<"response_received", k, "success", text>>)
    /\ apc' = [apc EXCEPT ![k] = "ran"]
    /\ UNCHANGED <<ttsVars, voiceVars, current_worker, todo, winVars, envVars, obsVars>>
    /\ UNCHANGED auxVars

\* the classifications send_chat_message returns for a failed call
Failures == APIStatus \ {"success"}

\* run(): send_chat_message returns a classified failure
APIWorker_fail(k) ==
    /\ apc[k] = "running"
    /\ \E status \in Failures :
         events' = Append(events, <<"response_received", k, status, EmptyText>>)
    /\ apc' = [apc EXCEPT ![k] = "ran"]
    /\ UNCHANGED <<ttsVars, voiceVars, current_worker, todo, winVars, envVars, obsVars>>
    /\ UNCHANGED auxVars

\* run() without its except clause: the exception ends the thread unreported
APIWorker_raise_unhandled(k) ==
    /\ apc[k] = "running"
    /\ apc' = [apc EXCEPT ![k] = "ran"]
    /\ UNCHANGED <<ttsVars, voiceVars, current_worker, events, todo, winVars, envVars, obsVars>>
    /\ UNCHANGED auxVars

\* run(): an exception escapes send_chat_message
APIWorker_raise(k) ==
    /\ apc[k] = "running"
    /\ events' = Append(events, <<"error_occurred", 0, k>>)
    /\ apc' = [apc EXCEPT ![k] = "ran"]
    /\ UNCHANGED <<ttsVars, voiceVars, current_worker, todo, winVars, envVars, obsVars>>
    /\ UNCHANGED auxVars

\* the thread ends: QThread.finished
APIWorker_finished(k) ==
    /\ apc[k] = "ran"
    /\ events' = Append(events, <<"finished", k>>)
    /\ apc' = [apc EXCEPT ![k] = "finished"]
    /\ UNCHANGED <<ttsVars, voiceVars, current_worker, todo, winVars, envVars, obsVars>>
    /\ UNCHANGED auxVars

isRunning(k) == apc[k] \in {"running", "ran"}

\* ---- VoiceAgentController ----
\* _send_to_api(message): the message with core k goes out on worker k
send_to_api(k) ==
    /\ current_worker' = k
    /\ apc' = [apc EXCEPT ![k] = "running"]

\* the coordinator is between two events of its event loop
idle == todo = <<>>

\* a button click: the handlers below run when the event loop takes it
click == idle /\ uiLeft > 0 /\ uiLeft' = uiLeft - 1

\* _on_voice_start
on_voice_start ==
    /\ click
    /\ IF ~available
       THEN /\ chat' = Append(chat, <<"error", "unavailable">>)
            /\ UNCHANGED <<is_active, is_recording, listen_thread, lpc, nthreads>>
       ELSE /\ start_recording
            /\ UNCHANGED chat
    /\ UNCHANGED <<available, mic, room_connected, agent_connected>>
    /\ UNCHANGED <<ttsVars, apiVars, events, todo, nreq, typeLeft, hearLeft, obsVars>>
    /\ UNCHANGED auxVars

\* _on_voice_stop
on_voice_stop ==
    /\ click
    /\ IF ~available
       THEN UNCHANGED <<is_active, is_recording>>
       ELSE stop_recording
    /\ UNCHANGED <<available, listen_thread, lpc, mic>>
    /\ UNCHANGED <<ttsVars, apiVars, events, todo, winVars, nreq, nthreads, typeLeft, hearLeft, obsVars>>
    /\ UNCHANGED auxVars

\* _on_listening_started: `if self.tts.is_speaking(): self.tts.stop()`
on_listening_started ==
    /\ idle /\ events # <<>> /\ Head(events)[1] = "listening_started"
    /\ events' = Tail(events)
    /\ IF speaking
       THEN /\ todo' = stop
            /\ barge' = TRUE
       ELSE UNCHANGED <<todo, barge>>
    /\ UNCHANGED <<ttsVars, voiceVars, apiVars, winVars, envVars>>
    /\ UNCHANGED <<accepted, rendered, stopped, stopMark, halted, disconnected,
                   lsSpeaking, stopSince, over, scenarioE>>
    /\ UNCHANGED auxVars

\* _on_transcription_ready(text)
on_transcription_ready ==
    /\ idle /\ events # <<>> /\ Head(events)[1] = "transcription_ready"
    /\ events' = Tail(events)
    /\ LET text == Head(events)[3] IN
         IF blank(text)
         THEN UNCHANGED <<chat, apiVars>>
         ELSE /\ chat' = Append(chat, <<"user", text>>)
              /\ send_to_api(text[2])
    /\ UNCHANGED <<room_connected, agent_connected>>
    /\ UNCHANGED <<ttsVars, voiceVars, todo, envVars, obsVars>>
    /\ UNCHANGED auxVars

\* _on_voice_error(error_message)
on_voice_error ==
    /\ idle /\ events # <<>> /\ Head(events)[1] = "error_occurred"
    /\ Head(events)[2] # 0
    /\ events' = Tail(events)
    /\ chat' = Append(chat, <<"error", "voice">>)
    /\ UNCHANGED <<room_connected, agent_connected>>
    /\ UNCHANGED <<ttsVars, voiceVars, apiVars, todo, envVars, obsVars>>
    /\ UNCHANGED auxVars

\* what the user types into the chat panel
Typed(k) == {<<FALSE, k>>, <<TRUE, k>>, <<TRUE, 0>>, EmptyText}

\* ChatPanel._send emits text_message_sent(text.strip()) unless it is empty;
\* _on_text_message(text) handles it
on_text_message ==
    /\ idle /\ typeLeft > 0 /\ nreq < MaxReq
    /\ typeLeft' = typeLeft - 1
    /\ \E raw \in Typed(nreq + 1) :
         LET text == strip(raw) IN
         /\ truthy(text)
         /\ IF blank(text)
            THEN UNCHANGED <<chat, apiVars, nreq>>
            ELSE /\ chat' = Append(chat, <<"user", text>>)
                 /\ nreq' = nreq + 1
                 /\ send_to_api(text[2])
    /\ UNCHANGED <<room_connected, agent_connected>>
    /\ UNCHANGED <<ttsVars, voiceVars, events, todo, nthreads, uiLeft, hearLeft, obsVars>>
    /\ UNCHANGED auxVars

\* the text _handle_error_response shows for a failed reply; the error text
\* of INVALID_RESPONSE ("Server returned invalid JSON response") contains
\* "invalid" and is replaced by the invalid-key text
error_msg(status) ==
    CASE status = "timeout" -> "Request timed out"
      [] status = "connection_error" -> "Cannot connect to server"
      [] status = "authentication_error" -> "Authentication failed"
      [] status = "invalid_response" -> "Invalid API Key"
      [] OTHER -> "response.error"

\* the handler without its call of self.tts.speak(ai_reply)
handle_api_response_unspoken ==
    /\ idle /\ events # <<>> /\ Head(events)[1] = "response_received"
    /\ events' = Tail(events)
    /\ LET status == Head(events)[3]
           ai_reply == Head(events)[4] IN
         IF status = "success"
         THEN /\ chat' = Append(chat, <<"agent", ai_reply>>)
              /\ UNCHANGED <<speech_queue, worker_thread, wpc, accepted, halted,
                             scenarioE>>
              /\ agent_connected' = TRUE
         ELSE /\ chat' = Append(chat, <<"error", error_msg(status)>>)
              /\ agent_connected' = FALSE
              /\ UNCHANGED <<speech_queue, worker_thread, wpc, accepted, halted,
                             scenarioE>>
    /\ UNCHANGED <<enabled, engine, speaking, wtext, room_connected>>
    /\ UNCHANGED <<voiceVars, apiVars, todo, envVars>>
    /\ UNCHANGED <<rendered, stopped, stopMark, barge, disconnected,
                   lsSpeaking, stopSince, over>>
    /\ UNCHANGED auxVars

\* _handle_api_response(response), with _handle_error_response
handle_api_response ==
    /\ idle /\ events # <<>> /\ Head(events)[1] = "response_received"
    /\ events' = Tail(events)
    /\ LET status == Head(events)[3]
           ai_reply == Head(events)[4] IN
         IF status = "success"
         THEN /\ chat' = Append(chat, <<"agent", ai_reply>>)
              /\ speak(ai_reply)
              /\ agent_connected' = TRUE
         ELSE /\ chat' = Append(chat, <<"error", error_msg(status)>>)
              /\ agent_connected' = FALSE
              /\ UNCHANGED <<speech_queue, worker_thread, wpc, accepted, halted,
                             scenarioE>>
    /\ UNCHANGED <<enabled, engine, speaking, wtext, room_connected>>
    /\ UNCHANGED <<voiceVars, apiVars, todo, envVars>>
    /\ UNCHANGED <<rendered, stopped, stopMark, barge, disconnected,
                   lsSpeaking, stopSince, over>>
    /\ UNCHANGED auxVars

\* the handler without its call of set_agent_connected(False)
handle_api_error_keeps_status ==
    /\ idle /\ events # <<>> /\ Head(events)[1] = "error_occurred"
    /\ Head(events)[2] = 0
    /\ events' = Tail(events)
    /\ chat' = Append(chat, <<"error", "exception">>)
    /\ UNCHANGED <<room_connected, agent_connected>>
    /\ UNCHANGED <<ttsVars, voiceVars, apiVars, todo, envVars, obsVars>>
    /\ UNCHANGED auxVars

\* _handle_api_error(error_message)
handle_api_error ==
    /\ idle /\ events # <<>> /\ Head(events)[1] = "error_occurred"
    /\ Head(events)[2] = 0
    /\ events' = Tail(events)
    /\ chat' = Append(chat, <<"error", "exception">>)
    /\ agent_connected' = FALSE
    /\ UNCHANGED room_connected
    /\ UNCHANGED <<ttsVars, voiceVars, apiVars, todo, envVars, obsVars>>
    /\ UNCHANGED auxVars

\* _cleanup_worker, connected to every worker's finished signal
cleanup_worker ==
    /\ idle /\ events # <<>> /\ Head(events)[1] = "finished"
    /\ events' = Tail(events)
    /\ current_worker' = (IF current_worker # 0 THEN 0 ELSE current_worker)
    /\ UNCHANGED apc
    /\ UNCHANGED <<ttsVars, voiceVars, todo, winVars, envVars, obsVars>>
    /\ UNCHANGED auxVars

\* _on_tts_toggle(enabled): set_enabled(enabled), then stop() once more
on_tts_toggle ==
    /\ click
    /\ \E on \in BOOLEAN :
         /\ enabled' = on
         /\ todo' = IF on THEN <<>> ELSE stop \o stop
         /\ scenarioE' = IF ~on /\ speech_queue # <<>>
                            /\ \E w \in Workers : wpc[w] = "run"
                         THEN "off_busy" ELSE "none"
    /\ UNCHANGED <<engine, speaking, speech_queue, worker_thread, wpc, wtext>>
    /\ UNCHANGED <<voiceVars, apiVars, events, winVars, nreq, nthreads, typeLeft, hearLeft>>
    /\ UNCHANGED <<accepted, rendered, stopped, stopMark, barge, halted, disconnected,
                   lsSpeaking, stopSince, over>>
    /\ UNCHANGED auxVars

\* _on_stop_all
on_stop_all ==
    /\ click
    /\ IF available THEN stop_recording ELSE UNCHANGED <<is_active, is_recording>>
    /\ todo' = stop
    /\ UNCHANGED <<available, listen_thread, lpc, mic>>
    /\ UNCHANGED <<ttsVars, apiVars, events, winVars, nreq, nthreads, typeLeft, hearLeft, obsVars>>
    /\ UNCHANGED auxVars

\* VoiceAgentWindow._on_disconnect_clicked emits disconnect_requested only
\* while connected; _on_disconnect_requested up to the first tts.stop()
on_disconnect_requested ==
    /\ click
    /\ agent_connected
    /\ IF available THEN stop_recording ELSE UNCHANGED <<is_active, is_recording>>
    /\ todo' = stop \o <<"wait", "update_ui">>
    /\ UNCHANGED <<available, listen_thread, lpc, mic>>
    /\ UNCHANGED <<ttsVars, apiVars, events, winVars, nreq, nthreads, typeLeft, hearLeft, obsVars>>
    /\ UNCHANGED auxVars

\* a wait on the outstanding worker without the one-second limit
disconnect_wait_unbounded ==
    /\ todo # <<>> /\ Head(todo) = "wait"
    /\ IF current_worker = 0 THEN TRUE ELSE ~isRunning(current_worker)
    /\ todo' = Tail(todo)
    /\ UNCHANGED <<ttsVars, voiceVars, apiVars, events, winVars, envVars, obsVars>>
    /\ UNCHANGED auxVars

\* `if current_worker and current_worker.isRunning(): current_worker.wait(1000)`
\* returns when the worker has finished or after one second
disconnect_wait ==
    /\ todo # <<>> /\ Head(todo) = "wait"
    /\ todo' = Tail(todo)
    /\ UNCHANGED <<ttsVars, voiceVars, apiVars, events, winVars, envVars, obsVars>>
    /\ UNCHANGED auxVars

\* the rest of _on_disconnect_requested
disconnect_update_ui ==
    /\ todo # <<>> /\ Head(todo) = "update_ui"
    /\ todo' = Tail(todo)
    /\ room_connected' = FALSE
    /\ agent_connected' = FALSE
    /\ chat' = Append(chat, <<"agent", "disconnected">>)
    /\ disconnected' = TRUE
    /\ UNCHANGED <<ttsVars, voiceVars, apiVars, events, envVars>>
    /\ UNCHANGED <<accepted, rendered, stopped, stopMark, barge, halted,
                   lsSpeaking, stopSince, over, scenarioE>>
    /\ UNCHANGED auxVars

\* VoiceAgentController.cleanup(), called by main() once app.exec() has
\* returned: stop_recording(), then tts.cleanup() = stop() and engine.stop()
\* once more, the bounded wait on the worker, api_client.close()
cleanup ==
    /\ idle
    /\ op' = Append(op, "cleanup")
    /\ IF available THEN stop_recording ELSE UNCHANGED <<is_active, is_recording>>
    /\ todo' = stop \o (IF engine THEN <<"engine_stop">> ELSE <<>>) \o <<"wait", "close">>
    /\ UNCHANGED <<available, listen_thread, lpc, mic>>
    /\ UNCHANGED <<ttsVars, apiVars, events, winVars, envVars, obsVars>>
    /\ UNCHANGED <<cycles, announced, outcome, call, ret, input_enabled>>

\* cleanup(): `self.api_client.close()`, after which main() exits and the
\* coordinator handles nothing any more
cleanup_close ==
    /\ todo # <<>> /\ Head(todo) = "close"
    /\ todo' = <<"exited">>
    /\ UNCHANGED <<ttsVars, voiceVars, apiVars, events, winVars, envVars, obsVars>>
    /\ UNCHANGED auxVars

Next ==
    \/ on_voice_start
    \/ on_voice_stop
    \/ on_listening_started
    \/ on_transcription_ready
    \/ on_voice_error
    \/ on_text_message
    \/ handle_api_response
    \/ handle_api_error
    \/ cleanup_worker
    \/ on_tts_toggle
    \/ on_stop_all
    \/ on_disconnect_requested
    \/ disconnect_wait
    \/ disconnect_update_ui
    \/ stop_engine
    \/ stop_speaking
    \/ stop_clear
    \/ \E w \in Workers : speech_worker_loop(w)
    \/ \E w \in Workers : speech_worker_exit(w)
    \/ \E w \in Workers : speak_sync_begin(w)
    \/ \E w \in Workers : speak_sync_say(w)
    \/ \E w \in Workers : speak_sync_return(w)
    \/ \E w \in Workers : speak_sync_end(w)
    \/ \E t \in Threads : listen_enter(t)
    \/ \E t \in Threads : listen_loop(t)
    \/ \E t \in Threads : listen_return(t)
    \/ \E t \in Threads : listen_recognized(t)
    \/ \E t \in Threads : listen_failed(t)
    \/ \E t \in Threads : listen_finally(t)
    \/ \E k \in Reqs : APIWorker_run(k)
    \/ \E k \in Reqs : APIWorker_fail(k)
    \/ \E k \in Reqs : APIWorker_raise(k)
    \/ \E k \in Reqs : APIWorker_finished(k)

Spec == Init /\ [][Next]_vars

\* the coordinator calls self.tts.speak(ai_reply) with the reply to a
\* message, the exchange that produced the reply left out
speak_call ==
    /\ idle /\ typeLeft > 0 /\ nreq < MaxReq
    /\ typeLeft' = typeLeft - 1
    /\ nreq' = nreq + 1
    /\ \E ai_reply \in Replies(nreq + 1) : speak(ai_reply)
    /\ UNCHANGED <<enabled, engine, speaking, wtext>>
    /\ UNCHANGED <<voiceVars, apiVars, events, todo, winVars, nthreads, uiLeft, hearLeft>>
    /\ UNCHANGED <<rendered, stopped, stopMark, barge, disconnected,
                   lsSpeaking, stopSince, over>>
    /\ UNCHANGED auxVars

TTSActions ==
    \/ stop_engine
    \/ stop_speaking
    \/ stop_clear
    \/ \E w \in Workers : speech_worker_loop(w)
    \/ \E w \in Workers : speech_worker_exit(w)
    \/ \E w \in Workers : speak_sync_begin(w)
    \/ \E w \in Workers : speak_sync_say(w)
    \/ \E w \in Workers : speak_sync_return(w)
    \/ \E w \in Workers : speak_sync_end(w)

NextTTS ==
    \/ speak_call
    \/ on_tts_toggle
    \/ on_stop_all
    \/ TTSActions

\* no microphone: the speech queue driven by replies and by the two buttons
\* that stop it
InitTTS == Config(TRUE, FALSE, TRUE, TTSClicks, SpeakCalls, 0)
SpecTTS == InitTTS /\ [][NextTTS]_vars

NextBarge ==
    \/ speak_call
    \/ on_voice_start
    \/ on_listening_started
    \/ on_transcription_ready
    \/ \E t \in Threads : listen_enter(t)
    \/ \E t \in Threads : listen_loop(t)
    \/ \E t \in Threads : listen_return(t)
    \/ \E t \in Threads : listen_recognized(t)
    \/ TTSActions

\* the user starts voice input once; replies are spoken while the loop runs
InitBarge == Config(TRUE, TRUE, TRUE, MaxUI, BargeCalls, MaxHeard)
SpecBarge == InitBarge /\ [][NextBarge]_vars

\* the drain threads and the coordinator's pending statements always get to
\* run, and runAndWait() returns
LiveTTS ==
    /\ SpecTTS
    /\ WF_vars(TTSActions)

\* what the coordinator does without the user: pending statements of the
\* handler it is in, and the voice events queued for it
VoiceCoordinator ==
    \/ stop_engine
    \/ stop_speaking
    \/ stop_clear
    \/ disconnect_wait
    \/ disconnect_update_ui
    \/ on_listening_started
    \/ on_transcription_ready
    \/ on_voice_error

\* the steps the capture thread takes by itself; recognizer.listen()
\* returning (listen_return) is left to the user, who has to speak
CaptureSteps(t) ==
    \/ listen_enter(t)
    \/ listen_loop(t)
    \/ listen_recognized(t)
    \/ listen_failed(t)
    \/ listen_finally(t)

NextVoice ==
    \/ on_voice_start
    \/ on_voice_stop
    \/ on_disconnect_requested
    \/ VoiceCoordinator
    \/ \E t \in Threads : listen_return(t)
    \/ \E t \in Threads : CaptureSteps(t)

\* the capture loop with its start, stop and disconnect buttons; nothing is
\* typed and no reply is spoken
InitVoice == Config(TRUE, TRUE, TRUE, VoiceClicks, 0, VoiceHeard)
SpecVoice == InitVoice /\ [][NextVoice]_vars

\* the coordinator's event loop and the capture threads always get to run
\* and recognize_google() returns; nobody has to speak
LiveVoice ==
    /\ SpecVoice
    /\ WF_vars(VoiceCoordinator)
    /\ \A t \in Threads : WF_vars(CaptureSteps(t))

\* the backend call of request k, from start() to the finished signal
APIWorkerSteps(k) ==
    \/ APIWorker_run(k)
    \/ APIWorker_fail(k)
    \/ APIWorker_raise(k)
    \/ APIWorker_finished(k)

NextExchange ==
    \/ on_voice_start
    \/ on_listening_started
    \/ on_transcription_ready
    \/ on_voice_error
    \/ handle_api_response
    \/ cleanup_worker
    \/ \E t \in Threads : listen_return(t)
    \/ \E t \in Threads : CaptureSteps(t)
    \/ \E k \in Reqs : APIWorker_run(k)
    \/ \E k \in Reqs : APIWorker_finished(k)
    \/ TTSActions

\* what the user says is dispatched, answered with success and the answer
\* spoken; nothing is typed and nothing is stopped by hand
InitExchange ==
    \E eng \in BOOLEAN : Config(eng, TRUE, TRUE, ExClicks, 0, ExHeard)
SpecExchange == InitExchange /\ [][NextExchange]_vars

\* the speech drain thread w, left to itself
DrainSteps(w) ==
    \/ speech_worker_loop(w)
    \/ speech_worker_exit(w)
    \/ speak_sync_begin(w)
    \/ speak_sync_say(w)
    \/ speak_sync_return(w)
    \/ speak_sync_end(w)

NextDispatch ==
    \/ on_text_message
    \/ handle_api_response
    \/ handle_api_error
    \/ cleanup_worker
    \/ \E k \in Reqs : APIWorkerSteps(k)
    \/ \E w \in Workers : DrainSteps(w)

\* typed messages, every outcome of their dispatch, and the answers spoken
InitDispatch == Config(TRUE, FALSE, TRUE, 0, DispTyped, 0)
SpecDispatch == InitDispatch /\ [][NextDispatch]_vars

\* ---- APIClient._make_request ----
\* what session.request() can do: return a response with a status code and
\* a body, or raise.  ConnectTimeout is both a ConnectionError and a Timeout
StatusCodes == {200, 201, 204, 304, 400, 401, 403, 404, 429, 500, 503}
JsonBodies == {"json_object", "json_error_object", "json_array"}
Bodies == JsonBodies \cup {"text", "empty"}
TimeoutClasses == {"ReadTimeout", "ConnectTimeout"}
ConnectionErrorClasses == {"ConnectionError", "ConnectTimeout", "SSLError", "ProxyError"}
RequestExceptionClasses ==
    TimeoutClasses \cup ConnectionErrorClasses
        \cup {"HTTPError", "TooManyRedirects", "ChunkedEncodingError"}
Raised == (RequestExceptionClasses \ {"HTTPError"}) \cup {"Exception"}
\* send_chat_message posts with the configured timeout, check_health gets
\* with a timeout of five seconds
Callers == {<<"POST", "API_TIMEOUT">>, <<"GET", "5">>}
HttpOutcomes ==
    {<<c, "response", code, body>> : c \in Callers, code \in StatusCodes, body \in Bodies}
        \cup {<<c, e, 0, "none">> : c \in Callers, e \in Raised}

\* the try block: session.request, raise_for_status, response.json()
try_body(c) ==
    IF c[2] # "response" THEN <<"raise", c[2]>>
    ELSE IF c[3] >= 400 /\ c[3] < 600 THEN <<"raise", "HTTPError">>
    ELSE IF c[4] \in JsonBodies THEN <<"return", <<"success", c[3]>>>>
    ELSE <<"return", <<"invalid_response", c[3]>>>>

\* the except clauses with ConnectionError tested ahead of Timeout
make_request_connection_first(c) ==
    LET r == try_body(c) IN
      IF r[1] = "return" THEN r[2]
      ELSE IF r[2] \in ConnectionErrorClasses THEN <<"connection_error", 0>>
      ELSE IF r[2] \in TimeoutClasses THEN <<"timeout", 0>>
      ELSE IF r[2] = "HTTPError"
           THEN IF c[3] \in {401, 403} THEN <<"authentication_error", c[3]>>
                ELSE <<"error", c[3]>>
      ELSE <<"error", 0>>

\* _make_request: the value returned, <<status, status_code>> with 0 for no
\* status code; the except clauses in their order
make_request(c) ==
    LET r == try_body(c) IN
      IF r[1] = "return" THEN r[2]
      ELSE IF r[2] \in TimeoutClasses THEN <<"timeout", 0>>
      ELSE IF r[2] \in ConnectionErrorClasses THEN <<"connection_error", 0>>
      ELSE IF r[2] = "HTTPError"
           THEN IF c[3] \in {401, 403} THEN <<"authentication_error", c[3]>>
                ELSE <<"error", c[3]>>
      ELSE IF r[2] \in RequestExceptionClasses THEN <<"error", 0>>
      ELSE <<"error", 0>>

\* _make_request is called and session.request() ends in one of its outcomes
make_request_call ==
    /\ call = <<>>
    /\ \E c \in HttpOutcomes : call' = c
    /\ UNCHANGED <<ttsVars, voiceVars, apiVars, events, todo, winVars, envVars, obsVars>>
    /\ UNCHANGED <<cycles, announced, outcome, ret, op, input_enabled>>

\* _make_request returns
make_request_return ==
    /\ call # <<>> /\ ret = <<>>
    /\ ret' = make_request(call)
    /\ UNCHANGED <<ttsVars, voiceVars, apiVars, events, todo, winVars, envVars, obsVars>>
    /\ UNCHANGED <<cycles, announced, outcome, call, op, input_enabled>>

NextRequest ==
    \/ make_request_call
    \/ make_request_return

\* one call of _make_request with every outcome of the HTTP call
InitRequest == Config(TRUE, FALSE, TRUE, 0, 0, 0)
SpecRequest == InitRequest /\ [][NextRequest]_vars

\* ---- properties ----
IsPrefix(a, b) == Len(a) <= Len(b) /\ \A i \in 1..Len(a) : a[i] = b[i]
Alive == {w \in Workers : wpc[w] # "off"}
InSpeakSync == {w \in Workers : wpc[w] \in {"say", "run", "fin", "except"}}
Running == {k \in Reqs : apc[k] = "running"}
UserMessages(c) == SelectSeq(c, LAMBDA m : m[1] = "user")
\* the coordinator takes the transcript at the head of its event queue
TranscriptStep ==
    /\ idle /\ events # <<>> /\ Head(events)[1] = "transcription_ready"
    /\ events' = Tail(events)

\* C1: at most one backend call is outstanding at any time
C1_SingleFlight == Cardinality(Running) <= 1

\* C2: with no stop, utterances are rendered in the order they were
\* enqueued; at most one drain worker exists and at most one utterance is
\* inside _speak_sync
C2_FifoNoOverlap ==
    /\ Cardinality(Alive) <= 1
    /\ Cardinality(InSpeakSync) <= 1
    /\ ~stopped => IsPrefix(rendered, accepted)

C2_Witness ==
    /\ ~stopped
    /\ Len(accepted) = 3
    /\ rendered = SubSeq(accepted, 1, 2)
    /\ \E w \in Workers : wpc[w] = "run"

\* C3: if is_speaking() held when a cycle's listening_started was emitted,
\* stop() has been invoked before that cycle's transcription_ready is emitted
C3_StopBeforeTranscript ==
    [][\A t \in Threads :
         (/\ lpc[t] = "recognize"
          /\ Len(events') > Len(events)
          /\ events'[Len(events')][1] = "transcription_ready"
          /\ lsSpeaking[t]) => stopSince[t]]_vars

\* C4: after a listening_started handled while speaking, the speech queue
\* has been empty with is_speaking() false at some moment before the next
\* transcript is processed
C4_QuietBeforeTranscript == [][TranscriptStep => ~barge]_vars

\* C5: an utterance that was being rendered when the user spoke is no longer
\* being rendered when the transcript of what the user said is processed
C5_AlwaysInterruptible ==
    [][TranscriptStep => (Head(events)[4] = 0 \/ Playing # Head(events)[4])]_vars

\* C6: stop() returns with the queue empty, and no item accepted before a
\* stop() starts rendering after that stop() has returned
C6_StopDiscards ==
    [][/\ (todo # <<>> /\ Head(todo) = "clear_queue" /\ todo' = Tail(todo))
            => speech_queue' = <<>>
       /\ Len(rendered') > Len(rendered)
            => \A i \in 1..stopMark : accepted[i] # rendered'[Len(rendered')]]_vars

\* C7: after a stop() during rendering, unless speak() accepts another text,
\* the queue becomes empty with is_speaking() false and stays so
C7_StopSettles ==
    [](halted => <>(~halted \/ [](speech_queue = <<>> /\ ~speaking)))

C7_Witness ==
    /\ halted /\ idle /\ Alive = {}
    /\ speech_queue = <<>> /\ ~speaking
    /\ Len(accepted) >= 2

\* C8: once set_enabled(False) has returned and until TTS is re-enabled, no
\* utterance starts rendering
C8_NothingAfterDisable ==
    [][(~enabled /\ idle /\ ~enabled') => rendered' = rendered]_vars

C10_DisconnectTerminal ==
    [][disconnected =>
         /\ is_active' => is_active
         /\ UserMessages(chat') = UserMessages(chat)
         /\ Running' \subseteq Running
         /\ ~agent_connected => ~agent_connected']_vars

AgentMessages(c) == SelectSeq(c, LAMBDA m : m[1] = "agent")
\* the coordinator takes the result of request k off its event queue
ReplyStep(k) ==
    /\ idle /\ events # <<>>
    /\ Head(events)[1] = "response_received" /\ Head(events)[2] = k
    /\ events' = Tail(events)
\* message k was recorded, and so dispatched, before the disconnect message
SentBeforeDisconnect(c, k) ==
    \E i \in 1..Len(c), j \in 1..Len(c) :
        /\ i < j
        /\ c[i][1] = "user" /\ c[i][2][2] = k
        /\ c[j] = <<"agent", "disconnected">>

\* C11: a reply to a request that was outstanding when the disconnect ran
\* records no assistant message, enqueues no speech and leaves connectivity
\* false
C11_StaleReplyDiscarded ==
    [][\A k \in Reqs :
         (disconnected /\ ReplyStep(k) /\ SentBeforeDisconnect(chat, k)) =>
             /\ AgentMessages(chat') = AgentMessages(chat)
             /\ accepted' = accepted /\ speech_queue' = speech_queue
             /\ ~agent_connected']_vars

\* _on_disconnect_requested has begun and not yet updated the window
InTeardown == \E i \in 1..Len(todo) : todo[i] = "update_ui"

\* C12: a capture thread that is blocked in recognizer.listen() when the
\* disconnect runs terminates, with is_active false, whether or not the
\* user, who could still speak (hearLeft > 0), does so
C12_CaptureStopsOnDisconnect ==
    \A t \in Threads :
        [](InTeardown /\ lpc[t] = "listen" /\ hearLeft > 0
              => <>(~is_active /\ lpc[t] = "done"))

\* a step of one of the background threads: a capture thread, a speech drain
\* worker or an APIWorker
ThreadStep ==
    \/ \E t \in Threads : listen_return(t) \/ CaptureSteps(t)
    \/ \E w \in Workers :
         \/ speech_worker_loop(w) \/ speech_worker_exit(w)
         \/ speak_sync_begin(w) \/ speak_sync_say(w)
         \/ speak_sync_return(w) \/ speak_sync_end(w)
    \/ \E k \in Reqs :
         \/ APIWorker_run(k) \/ APIWorker_fail(k)
         \/ APIWorker_raise(k) \/ APIWorker_finished(k)

\* C13: no background thread assigns is_active, is_recording, the TTS
\* enabled flag or the connectivity flags
C13_OnlyCoordinatorWrites ==
    [][ThreadStep =>
         /\ is_active' = is_active /\ is_recording' = is_recording
         /\ enabled' = enabled
         /\ agent_connected' = agent_connected
         /\ room_connected' = room_connected]_vars

\* C14: whenever a capture thread is inside recognizer.listen(), it has
\* emitted one listening_started signal for each listen call it has begun,
\* the current one included
C14_AnnouncedBeforeListen ==
    \A t \in Threads :
        /\ announced[t] = cycles[t]
        /\ lpc[t] = "listen" => announced[t] >= 1

C14_Witness ==
    \E t \in Threads :
        /\ lpc[t] = "listen"
        /\ cycles[t] = 2 /\ announced[t] = 2

\* the coordinator takes a voice error off its event queue
VoiceErrorStep ==
    /\ idle /\ events # <<>>
    /\ Head(events)[1] = "error_occurred" /\ Head(events)[2] # 0
    /\ events' = Tail(events)
\* thread t, back at the head of its loop, begins another cycle
AnotherCycle(t) == lpc'[t] = "listen" /\ cycles'[t] = cycles[t] + 1
NoErrorShown == \A i \in 1..Len(chat) : chat[i][1] # "error"
NoErrorQueued == \A i \in 1..Len(events) : events[i][1] # "error_occurred"

\* C15: a cycle that ends in UnknownValueError emits nothing and leaves
\* is_active alone, and the thread's next step while is_active begins
\* another cycle
C15_NoSpeechIsSilent ==
    [][\A t \in Threads :
         /\ (lpc[t] = "recognize" /\ outcome'[t] = "UnknownValueError") =>
                /\ events' = events
                /\ lpc'[t] = "loop"
                /\ is_active' = is_active
         /\ (/\ lpc[t] = "loop" /\ outcome[t] = "UnknownValueError"
             /\ is_active /\ lpc'[t] # "loop") => AnotherCycle(t)]_vars

C15_Witness ==
    \E t \in Threads :
        /\ outcome[t] = "UnknownValueError"
        /\ lpc[t] = "listen" /\ cycles[t] = 2
        /\ is_active
        /\ NoErrorShown /\ NoErrorQueued

\* C16: a cycle that ends in RequestError emits error_occurred once and
\* leaves is_active alone, the thread's next step while is_active begins
\* another cycle, and the coordinator's handling of the error leaves the
\* session running
C16_ProviderErrorContinues ==
    [][/\ \A t \in Threads :
            /\ (lpc[t] = "recognize" /\ outcome'[t] = "RequestError") =>
                   /\ events' = Append(events, <<"error_occurred", t>>)
                   /\ lpc'[t] = "loop"
                   /\ is_active' = is_active
            /\ (/\ lpc[t] = "loop" /\ outcome[t] = "RequestError"
                /\ is_active /\ lpc'[t] # "loop") => AnotherCycle(t)
       /\ VoiceErrorStep => (is_active' = is_active /\ lpc' = lpc)]_vars

C16_Witness ==
    \E t \in Threads :
        /\ outcome[t] = "RequestError"
        /\ lpc[t] = "listen" /\ cycles[t] = 2
        /\ is_active
        /\ Len(SelectSeq(chat, LAMBDA m : m = <<"error", "voice">>)) = 1
        /\ NoErrorQueued

\* the user message of request k is in the chat
Asked(c, k) == \E i \in 1..Len(c) : c[i][1] = "user" /\ c[i][2][2] = k
Occurrences(s, x) == Cardinality({i \in 1..Len(s) : s[i] = x})
\* the coordinator takes the successful reply to request k off its queue
SuccessStep(k) == ReplyStep(k) /\ Head(events)[3] = "success"
\* the transcript is recorded as a user message and then dispatched, the
\* reply is recorded after it and connectivity is set true
RecordedInOrder ==
    /\ TranscriptStep =>
         LET text == Head(events)[3] IN
           /\ chat' = Append(chat, <<"user", text>>)
           /\ apc[text[2]] = "off" /\ apc'[text[2]] = "running"
    /\ \A k \in Reqs : SuccessStep(k) =>
           /\ Asked(chat, k)
           /\ chat' = Append(chat, <<"agent", Head(events)[4]>>)
           /\ agent_connected'

\* C17 as stated: the reply is appended to the speech queue whenever TTS is
\* enabled
C17_SpokenWheneverEnabled ==
    [][/\ RecordedInOrder
       /\ \A k \in Reqs : (SuccessStep(k) /\ enabled) =>
              speech_queue' = Append(speech_queue, Head(events)[4])]_vars

\* C17: a transcript is recorded as a user message and dispatched, its
\* reply is recorded after that message and sets connectivity true, and the
\* reply, trimmed, is appended to the speech queue once if TTS is enabled,
\* the engine exists and the reply is not blank, and not at all otherwise
C17_ExchangeInOrder ==
    /\ [](\A k \in Reqs :
            /\ apc[k] # "off" => Asked(chat, k)
            /\ Occurrences(accepted, k) <= 1)
    /\ [][/\ RecordedInOrder
          /\ \A k \in Reqs : SuccessStep(k) =>
               LET r == Head(events)[4] IN
                 IF enabled /\ engine /\ ~blank(r)
                 THEN /\ speech_queue' = Append(speech_queue, strip(r))
                      /\ accepted' = Append(accepted, k)
                 ELSE /\ speech_queue' = speech_queue
                      /\ accepted' = accepted]_vars

C17_Witness ==
    \E k \in Reqs :
        /\ \E t \in Threads : outcome[t] = "text"
        /\ \E i \in 1..Len(chat), j \in 1..Len(chat) :
             /\ i < j
             /\ chat[i] = <<"user", <<FALSE, k>>>>
             /\ chat[j] = <<"agent", <<FALSE, k>>>>
        /\ Occurrences(accepted, k) = 1
        /\ agent_connected

\* the coordinator takes the failure of request k off its event queue: a
\* classified failure, or the exception raised inside the worker
FailureStep(k) ==
    /\ idle /\ events # <<>> /\ events' = Tail(events)
    /\ \/ /\ Head(events)[1] = "response_received"
          /\ Head(events)[2] = k /\ Head(events)[3] # "success"
       \/ /\ Head(events)[1] = "error_occurred"
          /\ Head(events)[2] = 0 /\ Head(events)[3] = k
\* show_error calls made for dispatches, replies recorded, results waiting
DispatchErrors(c) ==
    SelectSeq(c, LAMBDA m : m[1] = "error" /\ m[2] # "unavailable" /\ m[2] # "voice")
RepliesRecorded(c) ==
    SelectSeq(c, LAMBDA m : m[1] = "agent" /\ m[2] # "greeting" /\ m[2] # "disconnected")
ResultsQueued ==
    SelectSeq(events, LAMBDA e : e[1] \in {"response_received", "error_occurred"})
Delivered == {k \in Reqs : apc[k] \in {"ran", "finished"}}

\* C18: handling a failed dispatch appends exactly one error to the chat and
\* sets connectivity false, the text is the timeout text exactly for
\* TIMEOUT, and every result delivered is either still queued or shown once
C18_FailureReportedOnce ==
    /\ [](Len(DispatchErrors(chat)) + Len(RepliesRecorded(chat))
             + Len(ResultsQueued) = Cardinality(Delivered))
    /\ [][\A k \in Reqs : FailureStep(k) =>
            /\ Len(chat') = Len(chat) + 1
            /\ SubSeq(chat', 1, Len(chat)) = chat
            /\ chat'[Len(chat')][1] = "error"
            /\ ~agent_connected'
            /\ Head(events)[1] = "response_received" =>
                 (chat'[Len(chat')][2] = "Request timed out"
                    <=> Head(events)[3] = "timeout")]_vars

C18_Witness ==
    /\ chat[Len(chat)] = <<"error", "Request timed out">>
    /\ ~agent_connected /\ room_connected
    /\ events = <<>>
    /\ Cardinality(Delivered) = 1

\* the results of request k among the queued events
ResultsFor(ev, k) ==
    Len(SelectSeq(ev, LAMBDA e :
          \/ e[1] = "response_received" /\ e[2] = k
          \/ e[1] = "error_occurred" /\ e[2] = 0 /\ e[3] = k))

\* C19: an APIWorker leaves run() by emitting exactly one of
\* response_received and error_occurred, emits no result at any other time,
\* and does not run again
C19_OneResultPerRun ==
    [][\A k \in Reqs :
         /\ (apc[k] = "running" /\ apc'[k] # "running") =>
                /\ apc'[k] = "ran"
                /\ Len(events') = Len(events) + 1
                /\ ResultsFor(events', k) = ResultsFor(events, k) + 1
         /\ ResultsFor(events', k) > ResultsFor(events, k) =>
                (apc[k] = "running" /\ apc'[k] = "ran")
         /\ apc[k] \in {"ran", "finished"} => apc'[k] # "running"]_vars

C19_Witness ==
    /\ Cardinality({k \in Reqs : apc[k] = "finished"}) = 2
    /\ \E i \in 1..Len(chat) : chat[i] = <<"error", "exception">>
    /\ Len(RepliesRecorded(chat)) = 1
    /\ events = <<>>

\* C20: _make_request returns a classified response for every outcome of
\* the HTTP call: SUCCESS for a 2xx JSON body, INVALID_RESPONSE for a 2xx
\* body that is not JSON, TIMEOUT for a timed-out call, CONNECTION_ERROR for
\* a connect failure, AUTHENTICATION_ERROR for 401 and 403, and ERROR for
\* every other HTTP error or exception
C20_Classified ==
    ret # <<>> =>
        LET kind == call[2]
            code == call[3]
            body == call[4]
            status == ret[1]
            ok == kind = "response" /\ code >= 200 /\ code < 300
            httpError == kind = "response" /\ code >= 400
        IN /\ status \in APIStatus
           /\ (ok /\ body \in JsonBodies) => status = "success"
           /\ (ok /\ body \notin JsonBodies) => status = "invalid_response"
           /\ kind \in TimeoutClasses => status = "timeout"
           /\ kind \in ConnectionErrorClasses \ TimeoutClasses
                  => status = "connection_error"
           /\ (httpError /\ code \in {401, 403}) => status = "authentication_error"
           /\ (httpError /\ code \notin {401, 403}) => status = "error"
           /\ kind \in Raised \ (TimeoutClasses \cup ConnectionErrorClasses)
                  => status = "error"

C20_Witness ==
    /\ call = <<<<"POST", "API_TIMEOUT">>, "ConnectTimeout", 0, "none">>
    /\ ret = <<"timeout", 0>>


\* ---- the voice handler on its own: start_recording() and stop_recording()
\* called directly, in any order, on a handler with or without a provider ----
call_start_recording ==
    /\ click
    /\ op' = Append(op, "start_recording")
    /\ start_recording
    /\ UNCHANGED <<available, mic>>
    /\ UNCHANGED <<ttsVars, apiVars, todo, winVars, nreq, typeLeft, hearLeft, obsVars>>
    /\ UNCHANGED <<cycles, announced, outcome, call, ret, input_enabled>>

call_stop_recording ==
    /\ click
    /\ op' = Append(op, "stop_recording")
    /\ stop_recording
    /\ UNCHANGED <<available, listen_thread, lpc, mic>>
    /\ UNCHANGED <<ttsVars, apiVars, events, todo, winVars, nreq, nthreads, typeLeft,
                   hearLeft, obsVars>>
    /\ UNCHANGED <<cycles, announced, outcome, call, ret, input_enabled>>

NextHandler ==
    \/ call_start_recording
    \/ call_stop_recording
    \/ \E t \in Threads :
         \/ listen_return(t)
         \/ CaptureSteps(t)

InitHandler ==
    \E avail \in BOOLEAN : Config(TRUE, avail, TRUE, HandlerCalls, 0, HandlerHeard)
SpecHandler == InitHandler /\ [][NextHandler]_vars

StartCall == op' = Append(op, "start_recording")
StopCall == op' = Append(op, "stop_recording")

\* C21: start_recording() starts a capture thread only on an available,
\* inactive handler: called while a session is active it changes nothing and
\* spawns no thread; called without a provider it emits exactly one
\* error_occurred and leaves is_active false.
C21_StartGuarded ==
    [][StartCall =>
        /\ is_active => UNCHANGED <<voiceVars, events, nthreads>>
        /\ ~available => /\ events' = Append(events, <<"error_occurred", -1>>)
                         /\ ~is_active'
                         /\ UNCHANGED <<voiceVars, nthreads>>
        /\ nthreads' # nthreads => /\ available /\ ~is_active
                                   /\ nthreads' = nthreads + 1]_vars

\* two calls in a row, the second one while the first session is active
C21_Witness ==
    /\ op = <<"start_recording", "start_recording">>
    /\ available /\ is_active /\ nthreads = 1

\* the capture threads inside the `with self.microphone` block, and those
\* inside _continuous_listen at all, past its entry
HoldingMicrophone == {t \in Threads : lpc[t] \in {"loop", "listen", "recognize"}}
InContinuousListen == HoldingMicrophone \cup {t \in Threads : lpc[t] = "finally"}

\* C22: at most one capture thread is executing _continuous_listen at any
\* time, whatever the sequence of start and stop calls: while one thread is
\* in the capture loop with the microphone, no other thread is inside
\* _continuous_listen.
C22_OneCaptureThread ==
    \A t \in HoldingMicrophone : InContinuousListen \subseteq {t}

\* C23: stop_recording() is idempotent: without an active session it changes
\* no state and emits no signal, and after any call the session flags are
\* down, so a second call leaves the state of the first.
C23_StopIdempotent ==
    [][StopCall =>
        /\ ~is_active => UNCHANGED <<voiceVars, events, nthreads>>
        /\ ~is_active' /\ ~is_recording'
        /\ UNCHANGED <<available, listen_thread, lpc, mic, events, nthreads>>]_vars

\* stop called twice on a started session
C23_Witness ==
    /\ op = <<"start_recording", "stop_recording", "stop_recording">>
    /\ nthreads = 1 /\ ~is_active


\* ---- the handlers that stop things, while a capture thread, a drain
\* worker and an API call are outstanding: the microphone hears nothing, the
\* replies are handed to speak() directly, and the calls that are dispatched
\* end in the worker's except branch ----
\* the statements a handler of the coordinator still has to execute
HandlerSteps ==
    \/ stop_engine
    \/ stop_speaking
    \/ stop_clear
    \/ disconnect_wait
    \/ disconnect_update_ui
    \/ cleanup_close

NextStop ==
    \/ on_voice_start
    \/ on_disconnect_requested
    \/ cleanup
    \/ HandlerSteps
    \/ on_listening_started
    \/ on_voice_error
    \/ speak_call
    \/ on_text_message
    \/ handle_api_error
    \/ cleanup_worker
    \/ \E t \in Threads :
         \/ listen_enter(t)
         \/ listen_loop(t)
         \/ listen_finally(t)
    \/ \E k \in Reqs :
         \/ APIWorker_raise(k)
         \/ APIWorker_finished(k)
    \/ \E w \in Workers : DrainSteps(w)

InitStop == Config(TRUE, TRUE, TRUE, StopClicks, StopTyped, 0)
SpecStop == InitStop /\ [][NextStop]_vars

\* the coordinator is scheduled; nothing is assumed about the capture
\* thread, the drain worker or the API workers
LiveStop == SpecStop /\ WF_vars(HandlerSteps)

\* the coordinator is not inside a handler: the event loop is idle or main()
\* has run cleanup() to its end
Returned == todo = <<>> \/ todo = <<"exited">>

\* C24: stop_recording(), TextToSpeech.stop(), the disconnect handler and
\* cleanup() always return: a handler the coordinator has entered is left
\* again, whatever the capture thread, the drain worker and the outstanding
\* API worker do or fail to do.
C24_HandlersReturn == ~Returned ~> Returned

\* cleanup() has returned while a capture thread is inside
\* _continuous_listen and a worker's API call is still in progress
C24_Witness ==
    /\ todo = <<"exited">>
    /\ \E t \in Threads : lpc[t] = "listen"
    /\ \E k \in Reqs : apc[k] = "running" /\ current_worker = k


\* C25: with TTS enabled and the engine available, no accepted text stays in
\* speech_queue while no drain worker remains to take it, under every
\* interleaving of speak() with a drain worker that is about to exit.
C25_NoStrandedItem ==
    (enabled /\ engine /\ idle /\ speech_queue # <<>>) => Alive # {}


\* C26: speaking is true only while an utterance is being rendered: whenever
\* the flag is up, a drain worker is inside _speak_sync, between raising the
\* flag ahead of say() and lowering it once runAndWait() is over.
C26_SpeakingOnlyInSync == speaking => InSpeakSync # {}

\* a second utterance is being rendered after a stop() has ended the first
C26_Witness ==
    /\ speaking /\ stopped
    /\ \E w \in Workers : wpc[w] = "run"
    /\ Len(rendered) >= 2


\* the last statement of a stop-all: of the handlers that call stop() where
\* there is no microphone, only the toggle to off lowers `enabled` first
StopAllReturns == enabled /\ todo = <<"clear_queue">> /\ todo' = <<>>

\* C27: stop-all stops the capture loop and the speech queue together and
\* leaves the dispatcher alone: when the handler returns, is_active is false,
\* the queue is empty and speaking is false, and current_worker and the
\* outstanding call are what they were.
C27_StopAllQuiets ==
    [][StopAllReturns =>
        /\ ~is_active' /\ speech_queue' = <<>> /\ ~speaking'
        /\ UNCHANGED <<current_worker, apc>>]_vars


\* ---- _check_connection: the health probe and what the window is told ----
\* what check_health() can meet: the debug short cut, every outcome of the
\* GET request, or an exception of its own
HealthOutcomes ==
    {c \in HttpOutcomes : c[1] = <<"GET", "5">>}
        \cup {<<<<"GET", "5">>, "dummy", 200, "json_object">>,
              <<<<"GET", "5">>, "raised", 0, "none">>}

\* check_health(): the <<status, status_code>> returned, or <<"raise", 0>>
check_health(c) ==
    IF c[2] = "dummy" THEN <<"success", 200>>
    ELSE IF c[2] = "raised" THEN <<"raise", 0>>
    ELSE make_request(c)

\* APIResponse.is_success()
is_success(r) == r[1] = "success"

\* _check_connection calls check_health()
check_health_call ==
    /\ call = <<>>
    /\ \E c \in HealthOutcomes : call' = c
    /\ UNCHANGED <<ttsVars, voiceVars, apiVars, events, todo, winVars, envVars, obsVars>>
    /\ UNCHANGED <<cycles, announced, outcome, ret, op, input_enabled>>

\* check_health() returns or raises
check_health_return ==
    /\ call # <<>> /\ ret = <<>>
    /\ ret' = check_health(call)
    /\ UNCHANGED <<ttsVars, voiceVars, apiVars, events, todo, winVars, envVars, obsVars>>
    /\ UNCHANGED <<cycles, announced, outcome, call, op, input_enabled>>

\* _check_connection with a timeout leaving the indicators on
check_connection_lenient ==
    /\ ret # <<>> /\ op = <<>>
    /\ op' = <<"check_connection">>
    /\ room_connected' = (ret[1] \in {"success", "timeout"})
    /\ agent_connected' = (ret[1] \in {"success", "timeout"})
    /\ UNCHANGED <<ttsVars, voiceVars, apiVars, events, todo, chat, envVars, obsVars>>
    /\ UNCHANGED <<cycles, announced, outcome, call, ret, input_enabled>>

\* _check_connection: the branches on is_success() and the except clause
check_connection ==
    /\ ret # <<>> /\ op = <<>>
    /\ op' = <<"check_connection">>
    /\ IF ret[1] # "raise" /\ is_success(ret)
       THEN room_connected' = TRUE /\ agent_connected' = TRUE
       ELSE room_connected' = FALSE /\ agent_connected' = FALSE
    /\ UNCHANGED <<ttsVars, voiceVars, apiVars, events, todo, chat, envVars, obsVars>>
    /\ UNCHANGED <<cycles, announced, outcome, call, ret, input_enabled>>

NextProbe ==
    \/ check_health_call
    \/ check_health_return
    \/ check_connection

\* the window as built, both indicators off, when __init__ reaches
\* _check_connection
InitProbe == Config(TRUE, FALSE, FALSE, 0, 0, 0)
SpecProbe == InitProbe /\ [][NextProbe]_vars

\* the probe met a usable answer: the debug short cut, or a response below
\* 400 whose body is JSON
ProbeSucceeded(c) ==
    c[2] = "dummy" \/ (c[2] = "response" /\ c[3] < 400 /\ c[4] \in JsonBodies)

\* C28: _check_connection sets room and agent connectivity both true exactly
\* when the health probe succeeded, and both false for every failure
\* classification and for an exception raised by the probe.
C28_ConnectivityFollowsProbe ==
    op = <<"check_connection">> =>
        /\ room_connected = agent_connected
        /\ room_connected <=> ret[1] = "success"
        /\ room_connected <=> ProbeSucceeded(call)

\* the probe raised and both indicators are off
C28_Witness ==
    /\ op = <<"check_connection">>
    /\ ret = <<"raise", 0>>
    /\ ~room_connected /\ ~agent_connected


\* ---- replies rendered while a capture session runs, with an engine that
\* can fail on any utterance ----
NextSynth ==
    \/ speak_call
    \/ on_voice_start
    \/ on_listening_started
    \/ on_voice_error
    \/ TTSActions
    \/ \E w \in Workers :
         \/ speak_sync_raise(w)
         \/ speak_sync_except(w)
    \/ \E t \in Threads :
         \/ listen_enter(t)
         \/ listen_loop(t)
         \/ listen_finally(t)

InitSynth == Config(TRUE, TRUE, TRUE, SynthClicks, SynthCalls, 0)
SpecSynth == InitSynth /\ [][NextSynth]_vars

\* the drain worker w leaves the except clause of _speak_sync
ExceptStep(w) == wpc[w] = "except" /\ wpc'[w] # "except"

\* C29: when rendering an utterance raises, speaking is reset to false and
\* the drain worker is back in its loop with the queued items untouched; the
\* capture session, the dispatcher, the settings of the speech queue and the
\* coordinator (its events, its handler, the chat) are left as they were.
C29_SynthesisErrorContained ==
    [][\A w \in Workers : ExceptStep(w) =>
          /\ ~speaking'
          /\ wpc'[w] = "loop"
          /\ UNCHANGED <<speech_queue, enabled, engine, worker_thread>>
          /\ UNCHANGED <<voiceVars, apiVars, events, todo, winVars>>]_vars

\* the first reply failed while a capture session was active, and the worker
\* is rendering the second
C29_Witness ==
    /\ op = <<"synthesis_error">>
    /\ accepted = <<1, 2>>
    /\ is_active
    /\ \E w \in Workers : wpc[w] = "run" /\ wtext[w][2] = 2


\* ---- ChatController and MainWindow: the text chat.  Its current_worker,
\* its APIWorkers, the event queue of its thread and the message list of its
\* window are the variables of the same names ----
\* the text _handle_error_response of ChatController shows
chat_error_msg(status) ==
    CASE status = "timeout" -> "Request timed out. Please try again."
      [] status = "connection_error" -> "Cannot connect to server."
      [] status = "authentication_error" -> "Authentication failed."
      [] status = "invalid_response" -> "Server returned invalid response."
      [] OTHER -> "response.error"

\* MainWindow._on_send_clicked, which a disabled Send button never calls:
\* the text is stripped, an empty or oversize one goes no further; the
\* signal is delivered at once to ChatController.handle_message_sent
handle_message_sent ==
    /\ idle /\ input_enabled /\ typeLeft > 0 /\ nreq < MaxReq
    /\ typeLeft' = typeLeft - 1
    /\ \E raw \in Typed(nreq + 1), oversize \in BOOLEAN :
         LET message == strip(raw) IN
         IF ~truthy(message)
         THEN UNCHANGED <<chat, apiVars, nreq, input_enabled>>
         ELSE IF oversize
         THEN /\ chat' = Append(chat, <<"error", "Message too long.">>)
              /\ UNCHANGED <<apiVars, nreq, input_enabled>>
         ELSE /\ chat' = Append(chat, <<"user", message>>)
              /\ input_enabled' = FALSE
              /\ nreq' = nreq + 1
              /\ current_worker' = message[2]
              /\ apc' = [apc EXCEPT ![message[2]] = "running"]
    /\ UNCHANGED <<room_connected, agent_connected>>
    /\ UNCHANGED <<ttsVars, voiceVars, events, todo, nthreads, uiLeft, hearLeft, obsVars>>
    /\ UNCHANGED <<cycles, announced, outcome, call, ret, op>>

\* ChatController._handle_api_response, with _handle_error_response
chat_handle_api_response ==
    /\ idle /\ events # <<>> /\ Head(events)[1] = "response_received"
    /\ events' = Tail(events)
    /\ input_enabled' = TRUE
    /\ LET status == Head(events)[3]
           ai_reply == Head(events)[4] IN
         chat' = IF status = "success"
                 THEN Append(chat, <<"agent", ai_reply>>)
                 ELSE Append(chat, <<"error", chat_error_msg(status)>>)
    /\ UNCHANGED <<room_connected, agent_connected>>
    /\ UNCHANGED <<ttsVars, voiceVars, apiVars, todo, envVars, obsVars>>
    /\ UNCHANGED <<cycles, announced, outcome, call, ret, op>>

\* ChatController._handle_api_error
chat_handle_api_error ==
    /\ idle /\ events # <<>> /\ Head(events)[1] = "error_occurred"
    /\ Head(events)[2] = 0
    /\ events' = Tail(events)
    /\ input_enabled' = TRUE
    /\ chat' = Append(chat, <<"error", "exception">>)
    /\ UNCHANGED <<room_connected, agent_connected>>
    /\ UNCHANGED <<ttsVars, voiceVars, apiVars, todo, envVars, obsVars>>
    /\ UNCHANGED <<cycles, announced, outcome, call, ret, op>>

\* ChatController._cleanup_worker
chat_cleanup_worker ==
    /\ idle /\ events # <<>> /\ Head(events)[1] = "finished"
    /\ events' = Tail(events)
    /\ current_worker' = (IF current_worker # 0 THEN 0 ELSE current_worker)
    /\ UNCHANGED apc
    /\ UNCHANGED <<ttsVars, voiceVars, todo, winVars, envVars, obsVars>>
    /\ UNCHANGED auxVars

NextChat ==
    \/ handle_message_sent
    \/ chat_handle_api_response
    \/ chat_handle_api_error
    \/ chat_cleanup_worker
    \/ \E k \in Reqs : APIWorkerSteps(k)

\* MainWindow as built: the input box and the Send button are enabled
InitChat == Config(TRUE, FALSE, TRUE, 0, ChatTyped, 0)
SpecChat == InitChat /\ [][NextChat]_vars

\* the calls whose outcome ChatController has not handled yet: in progress,
\* or with the result signal still queued
Outstanding ==
    {k \in Reqs :
        \/ apc[k] = "running"
        \/ \E i \in 1..Len(events) :
             \/ events[i][1] = "response_received" /\ events[i][2] = k
             \/ events[i][1] = "error_occurred" /\ events[i][3] = k}

\* C30: input is disabled when a valid message is dispatched and enabled
\* again when the response or the worker error of that call is handled:
\* whenever input is enabled no APIWorker is running, and input is disabled
\* only while a call is in progress or its result waits to be handled.
C30_InputFollowsCall ==
    /\ input_enabled => \A k \in Reqs : ~isRunning(k)
    /\ ~input_enabled => Outstanding # {}


\* ---- intake: what is said and what is typed, up to the dispatch; the
\* calls dispatched are left in flight ----
NextIntake ==
    \/ on_voice_start
    \/ on_listening_started
    \/ on_transcription_ready
    \/ on_voice_error
    \/ on_text_message
    \/ \E t \in Threads : listen_return(t)
    \/ \E t \in Threads : CaptureSteps(t)

InitIntake == Config(FALSE, TRUE, TRUE, IntakeClicks, IntakeTyped, IntakeHeard)
SpecIntake == InitIntake /\ [][NextIntake]_vars

\* the transcripts waiting in the coordinator's queue
QueuedTranscripts ==
    {events[i][3] : i \in {j \in 1..Len(events) : events[j][1] = "transcription_ready"}}
\* the texts recorded as user messages
RecordedTexts ==
    {chat[i][2] : i \in {j \in 1..Len(chat) : chat[j][1] = "user"}}
\* the requests a worker was started for
Dispatched == {k \in Reqs : apc[k] # "off"}

\* C31: an empty or whitespace-only transcript or text message is never
\* recorded as a user message and never dispatched: the capture loop queues
\* no blank transcript, no user message of the chat is blank, and every
\* worker started carries the text of a recorded, non-blank user message.
C31_BlankNeverRecorded ==
    /\ \A text \in QueuedTranscripts : ~blank(text)
    /\ \A text \in RecordedTexts : ~blank(text)
    /\ \A k \in Dispatched : \E text \in RecordedTexts : text[2] = k /\ k # 0

\* the recognizer returned a blank text, which went no further, while a
\* typed message and a transcript were recorded and dispatched
C31_Witness ==
    /\ \E t \in Threads : outcome[t] = "empty"
    /\ Cardinality(RecordedTexts) = 2
    /\ Cardinality(Dispatched) = 2
    /\ typeLeft = 0 /\ hearLeft = 0


\* C32: a capture thread that is leaving its loop after stop_recording()
\* never deactivates a later session: a step of a thread that had opened
\* the microphone and listened, and is not the thread start_recording()
\* started last, never turns is_active from true to false.
C32_OldThreadKeepsOut ==
    [][\A t \in Threads :
         (t # listen_thread /\ cycles[t] > 0 /\ lpc'[t] # lpc[t] /\ is_active)
             => is_active']_vars


\* capture thread t emits transcription_ready in this step
EmitsTranscript(t) ==
    /\ lpc[t] = "recognize"
    /\ Len(events') = Len(events) + 1
    /\ events'[Len(events')][1] = "transcription_ready"
    /\ events'[Len(events')][2] = t

\* C33: after stop_recording() has returned the capture thread of the
\* stopped session emits no transcription_ready. Stated for the first
\* session, where only stop_recording() can have cleared is_active: its
\* thread emits a transcript only while is_active is still true.
C33_NoTranscriptAfterStop ==
    [][\A t \in Threads : (EmitsTranscript(t) /\ nthreads = 1) => is_active]_vars


\* C34: whenever a drain worker is rendering an utterance (it is inside
\* runAndWait()), is_speaking() is true
C34_RenderingIsSpeaking ==
    \A w \in Workers : wpc[w] = "run" => speaking


\* the coordinator takes the outcome of request k off its event queue
OutcomeStep(k) == ReplyStep(k) \/ FailureStep(k)
\* message j was recorded, and so dispatched, before message k
DispatchedBefore(c, j, k) ==
    \E a \in 1..Len(c), b \in 1..Len(c) :
        /\ a < b
        /\ c[a][1] = "user" /\ c[a][2][2] = j
        /\ c[b][1] = "user" /\ c[b][2][2] = k

\* C35: outcomes are recorded in the order of the requests: when the reply
\* or error of message k is recorded, the outcome of every message
\* dispatched before k has been recorded already (its worker has emitted its
\* result and the result is no longer queued)
C35_OutcomesInDispatchOrder ==
    [][\A k \in Reqs : OutcomeStep(k) =>
          \A j \in Reqs : DispatchedBefore(chat, j, k) =>
               (j \in Delivered /\ ResultsFor(events, j) = 0)]_vars


\* C36: when a capture thread exits, for whatever reason, is_active and
\* is_recording are both false afterwards, and a start_recording() called
\* once the threads have ended is not rejected: it opens a session with a
\* new thread
C36_ExitClearsFlags ==
    [][/\ \A t \in Threads :
            (lpc[t] # "done" /\ lpc'[t] = "done") => (~is_active' /\ ~is_recording')
       /\ (/\ StartCall /\ available /\ nthreads < MaxThreads
           /\ \A t \in Threads : lpc[t] \in {"off", "done"}) =>
             /\ is_active' /\ is_recording'
             /\ nthreads' = nthreads + 1
             /\ lpc'[nthreads + 1] = "enter"]_vars

\* the first thread failed to open the microphone, reported it and ended
\* without any stop_recording(); the next start_recording() was accepted
\* and its thread is listening
C36_Witness ==
    /\ op = <<"start_recording", "start_recording">>
    /\ lpc[1] = "done" /\ cycles[1] = 0
    /\ \E i \in 1..Len(events) : events[i] = <<"error_occurred", 1>>
    /\ is_active /\ is_recording
    /\ listen_thread = 2 /\ lpc[2] = "listen"


\* ---- the text shown for a failed reply ----
\* an error text is <<text, marks>>: marks are those of the four substrings
\* _handle_error_response looks for that the text contains ("quota" and
\* "invalid" in any case)
NoText == <<"", {}>>
\* what a server can put under the "error" key of an error body
ServerErrorTexts ==
    {NoText} \cup {<<"server error", m>> :
                     m \in {{}, {"429"}, {"quota"}, {"401"}, {"invalid"},
                            {"quota", "invalid"}}}

\* _make_request: the `error` field of the APIResponse it returns for the
\* outcome c, served being the text under "error" in an error body; without
\* one it is str(e) of the HTTPError, "<code> Client Error: ..."
response_error(c, served) ==
    LET status == make_request(c)[1]
        r == try_body(c) IN
      CASE status = "success" -> NoText
        [] status = "invalid_response" ->
             <<"Server returned invalid JSON response", {"invalid"}>>
        [] status = "timeout" -> <<"Request timed out after N seconds", {}>>
        [] status = "connection_error" ->
             <<"Cannot connect to server. Please check your connection.", {}>>
        [] status = "authentication_error" ->
             <<"Authentication failed. Please check your API key.", {}>>
        [] OTHER ->
             IF r[2] = "HTTPError"
             THEN IF c[4] = "json_error_object" THEN served
                  ELSE <<"str(HTTPError)", IF c[3] = 429 THEN {"429"} ELSE {}>>
             ELSE IF r[2] \in RequestExceptionClasses
                  THEN <<"Request failed: str(e)", {}>>
                  ELSE <<"Unexpected error: str(e)", {}>>

QuotaExceeded == "OpenAI Quota Exceeded"
InvalidAPIKey == "Invalid API Key"

\* _handle_error_response: the text handed to show_error
handle_error_response(status, error) ==
    CASE status = "timeout" -> "Request timed out"
      [] status = "connection_error" -> "Cannot connect to server"
      [] status = "authentication_error" -> "Authentication failed"
      [] OTHER ->
           LET e == IF error[1] = "" THEN <<"Unknown error", {}>> ELSE error IN
             IF "429" \in e[2] \/ "quota" \in e[2] THEN QuotaExceeded
             ELSE IF "401" \in e[2] \/ "invalid" \in e[2] THEN InvalidAPIKey
             ELSE e[1]

\* _make_request returns its APIResponse: status, status code and error
api_response_return ==
    /\ call # <<>> /\ ret = <<>>
    /\ \E served \in ServerErrorTexts :
         ret' = <<make_request(call)[1], make_request(call)[2],
                  response_error(call, served)>>
    /\ UNCHANGED <<ttsVars, voiceVars, apiVars, events, todo, winVars, envVars, obsVars>>
    /\ UNCHANGED <<cycles, announced, outcome, call, op, input_enabled>>

\* _handle_api_response takes the APIResponse of send_chat_message; for a
\* failure it calls _handle_error_response, which shows the text and clears
\* connectivity
show_response ==
    /\ ret # <<>> /\ op = <<>>
    /\ call[1][1] = "POST"
    /\ op' = <<"handled">>
    /\ IF ret[1] = "success"
       THEN /\ chat' = Append(chat, <<"agent", "reply">>)
            /\ agent_connected' = TRUE
       ELSE /\ chat' = Append(chat, <<"error", handle_error_response(ret[1], ret[3])>>)
            /\ agent_connected' = FALSE
    /\ UNCHANGED room_connected
    /\ UNCHANGED <<ttsVars, voiceVars, apiVars, events, todo, envVars, obsVars>>
    /\ UNCHANGED <<cycles, announced, outcome, call, ret, input_enabled>>

NextShown ==
    \/ make_request_call
    \/ api_response_return
    \/ show_response

\* one backend call with every outcome of the HTTP call, and its handling
InitShown == Config(FALSE, FALSE, TRUE, 0, 0, 0)
SpecShown == InitShown /\ [][NextShown]_vars

\* C37: the quota and invalid-key texts are shown only for replies of
\* status ERROR; a reply of status INVALID_RESPONSE is shown with its own
\* error text; TIMEOUT, CONNECTION_ERROR and AUTHENTICATION_ERROR each have
\* their fixed message
C37_ErrorTextByStatus ==
    (op = <<"handled">> /\ ret[1] # "success") =>
      LET Shown == chat[Len(chat)][2] IN
        /\ Shown \in {QuotaExceeded, InvalidAPIKey} => ret[1] = "error"
        /\ ret[1] = "invalid_response" => Shown = ret[3][1]
        /\ ret[1] = "timeout" => Shown = "Request timed out"
        /\ ret[1] = "connection_error" => Shown = "Cannot connect to server"
        /\ ret[1] = "authentication_error" => Shown = "Authentication failed"


\* the coordinator runs _cleanup_worker for the finished signal of worker k
CleanupStep(k) ==
    /\ idle /\ events # <<>> /\ Head(events) = <<"finished", k>>
    /\ events' = Tail(events)

\* C38: _cleanup_worker disposes only the worker whose finished signal
\* triggered it, and never one that is still running: the worker it calls
\* deleteLater() on and clears from current_worker is the one that finished
C38_CleanupOwnWorker ==
    [][\A k \in Reqs : CleanupStep(k) =>
          LET Disposed == IF current_worker' # current_worker
                          THEN {current_worker} ELSE {}
          IN \A d \in Disposed : d = k /\ ~isRunning(d)]_vars

====
